---- MODULE Spec2Model ----
(***************************************************************************)
(* Model of the module registry (src/registry/registry.py), of the module  *)
(* contract (src/modulebase.py), of module discovery (load_module and      *)
(* load_directory) and of WCBasic.parse_kw (src/modules/weight_channels.py)*)
(*                                                                         *)
(* Python objects are modelled as follows.  A dict is a function whose     *)
(* DOMAIN is its key set.  Module instances live in a heap, the sequence   *)
(* `instances`; an instance is identified by its position in the heap, so  *)
(* two instances are the same object iff their ids are equal.  The value   *)
(* None is the string "None".                                              *)
(***************************************************************************)
EXTENDS Integers, Sequences, FiniteSets, TLC

VARIABLES
    subclasses,   \* ModuleRegistry.subclasses: the process-wide pending list
    path_dict,    \* registry -> its self.path_dict
    kw_registry,  \* registry -> its self.kw_registry
    instances,    \* heap of the module instances created so far
    nActivate,    \* registry -> number of activate() calls made on it
    lastOp        \* the last operation called, its arguments and its outcome

vars == <<subclasses, path_dict, kw_registry, instances, nActivate, lastOp>>

(***************************************************************************)
(* Bounds of the model.                                                    *)
(***************************************************************************)
MaxPending == 3       \* longest pending list explored
MaxActivations == 2   \* activate() calls explored, over all registries
MaxPendingLookup == 2      \* the same two bounds where lookups are explored
MaxActivationsLookup == 2
MaxPendingLoad == 3        \* and where discovery is explored
MaxActivationsLoad == 2
MaxTokens == 5        \* longest keyword string parsed, in tokens

None == "None"

Registries == {"r1", "r2"}

(***************************************************************************)
(* The classes handed to the registration hook.  A and A2 are distinct     *)
(* classes with the same __module__ and __name__ (the same file loaded     *)
(* twice by load_module), so their instances get the same spec.  Bad       *)
(* inherits from ModuleBase but leaves an abstract member undefined.       *)
(* NotMod does not inherit from ModuleBase.                                *)
(***************************************************************************)
Classes == {"A", "A2", "B", "Bad", "NotMod"}

\* f'{self.__class__.__module__}.{self.__class__.__name__}'
class_spec(cls) ==
    CASE cls = "A"      -> "pkg.A"
      [] cls = "A2"     -> "pkg.A"
      [] cls = "B"      -> "pkg.B"
      [] cls = "Bad"    -> "pkg.Bad"
      [] cls = "NotMod" -> "pkg.NotMod"

\* issubclass(module_class, ModuleBase)
is_module_base(cls) == cls # "NotMod"

\* ABC refuses to instantiate a class with an abstract member left undefined
is_abstract(cls) == cls = "Bad"

\* The (class, kw) pairs the decorators of the loaded files pass to register
Registrations ==
    { <<"A", "fir">>, <<"B", "fir">>, <<"B", None>>, <<"A2", "sig">>,
      <<"Bad", "sig">>, <<"NotMod", None>> }

PathSpecs == { class_spec(c) : c \in Classes }
Keywords == {"fir", "sig"}
\* keys handed to the lookups: pathSpecs and keywords
Keys == {"pkg.A", "pkg.B"} \cup Keywords
\* default arguments handed to the lookups
Defaults == {None, "dflt"}

(***************************************************************************)
(* dict helpers                                                            *)
(***************************************************************************)
EmptyDict == [x \in {} |-> 0]

\* d[key] = value
dict_set(d, key, value) ==
    [x \in DOMAIN d \cup {key} |-> IF x = key THEN value ELSE d[x]]

\* what a lookup hands back: a module instance, or the caller's default object
Inst(id) == [inst |-> id]
Obj(d) == [obj |-> d]
Return(v) == [kind |-> "return", value |-> v]
Raise(err, arg) == [kind |-> "raise", error |-> err, arg |-> arg]

\* dict.get(key, default)
dict_get(d, key, default) ==
    IF key \in DOMAIN d THEN Return(Inst(d[key])) ELSE Return(Obj(default))

(***************************************************************************)
(* ModuleRegistry.__init__                                                 *)
(***************************************************************************)
new_registry == [path_dict |-> EmptyDict, kw_registry |-> EmptyDict]

\* self.path_dict / self.kw_registry are attributes of the instance `r`
store_shared(dicts, r, d) == [x \in DOMAIN dicts |-> d]
store(dicts, r, d) == [dicts EXCEPT ![r] = d]

(***************************************************************************)
(* ModuleRegistry.register                                                 *)
(***************************************************************************)
register_nocheck(subs, module_class, kw) ==
    [subclasses |-> Append(subs, [cls |-> module_class, kw |-> kw]),
     outcome |-> Return(module_class)]

register(subs, module_class, kw) ==
    IF ~is_module_base(module_class)
    THEN [subclasses |-> subs, outcome |-> Raise("TypeError", module_class)]
    ELSE [subclasses |-> Append(subs, [cls |-> module_class, kw |-> kw]),
          outcome |-> Return(module_class)]

\* register_module(kw)(cls): calls register, logs, returns cls
register_module(subs, cls, kw) == register(subs, cls, kw)

(***************************************************************************)
(* ModuleRegistry.activate                                                 *)
(***************************************************************************)
\* module_instance = cls(): ModuleBase.__init__ sets _spec
instantiate(cls) ==
    IF is_abstract(cls)
    THEN Raise("TypeError", cls)
    ELSE Return([cls |-> cls, spec |-> class_spec(cls), kw |-> None])

\* self.path_dict[module_instance.spec] = module_instance
path_insert_only(pd, spec, id) == [x \in {spec} |-> id]
path_insert_keep(pd, spec, id) ==
    IF spec \in DOMAIN pd THEN pd ELSE dict_set(pd, spec, id)
path_insert(pd, spec, id) == dict_set(pd, spec, id)

\* self.kw_registry[kw] = module_instance
kw_insert_keep(kwr, kw, id) ==
    IF kw \in DOMAIN kwr THEN kwr ELSE dict_set(kwr, kw, id)
kw_insert(kwr, kw, id) == dict_set(kwr, kw, id)

\* module_instance.kw = kw
assign_kw_skip(obj, kw) == obj
assign_kw(obj, kw) == [obj EXCEPT !.kw = kw]

\* if kw in self.kw_registry
kw_collides_never(kwr, kw) == FALSE
kw_collides(kwr, kw) == kw \in DOMAIN kwr

\* logger.warning(f'Overriding keyword "{kw}", replacing "{dropped}" with "{new}".')
warning(kw, dropped, new) == [kw |-> kw, dropped |-> dropped, new |-> new]

\* the loop only reads ModuleRegistry.subclasses
pending_consumed(subs) == <<>>
pending_after_activate(subs) == subs

RECURSIVE activate_loop_skip(_, _, _, _, _)
activate_loop_skip(subs, i, pd, kwr, insts) ==
    IF i > Len(subs)
    THEN [path_dict |-> pd, kw_registry |-> kwr, instances |-> insts,
          outcome |-> Return("self"), at |-> 0, warnings |-> <<>>]
    ELSE LET cls == subs[i].cls
             kw == subs[i].kw
             made == instantiate(cls)
         IN  IF made.kind = "raise"
             THEN LET rest == activate_loop_skip(subs, i + 1, pd, kwr, insts)
                  IN  [rest EXCEPT !.outcome = made, !.at = i]
             ELSE LET id == Len(insts) + 1
                      obj == made.value
                      pd2 == path_insert(pd, obj.spec, id)
                      obj2 == IF kw # None THEN assign_kw(obj, kw) ELSE obj
                      warned == IF kw # None /\ kw_collides(kwr, kw)
                                THEN <<warning(kw, insts[kwr[kw]].spec, obj2.spec)>>
                                ELSE <<>>
                      kwr2 == IF kw # None THEN kw_insert(kwr, kw, id) ELSE kwr
                      rest == activate_loop_skip(subs, i + 1, pd2, kwr2, Append(insts, obj2))
                  IN  [rest EXCEPT !.warnings = warned \o @]

\* for cls, kw in ModuleRegistry.subclasses: ... ; return self
\* `i` is the position in the pending list the loop has come to; an exception
\* raised by cls() leaves the loop and the method at once.
RECURSIVE activate_loop(_, _, _, _, _)
activate_loop(subs, i, pd, kwr, insts) ==
    IF i > Len(subs)
    THEN [path_dict |-> pd, kw_registry |-> kwr, instances |-> insts,
          outcome |-> Return("self"), at |-> 0, warnings |-> <<>>]
    ELSE LET cls == subs[i].cls
             kw == subs[i].kw
             made == instantiate(cls)
         IN  IF made.kind = "raise"
             THEN [path_dict |-> pd, kw_registry |-> kwr, instances |-> insts,
                   outcome |-> made, at |-> i, warnings |-> <<>>]
             ELSE LET id == Len(insts) + 1
                      obj == made.value
                      pd2 == path_insert(pd, obj.spec, id)
                      obj2 == IF kw # None THEN assign_kw(obj, kw) ELSE obj
                      warned == IF kw # None /\ kw_collides(kwr, kw)
                                THEN <<warning(kw, insts[kwr[kw]].spec, obj2.spec)>>
                                ELSE <<>>
                      kwr2 == IF kw # None THEN kw_insert(kwr, kw, id) ELSE kwr
                      rest == activate_loop(subs, i + 1, pd2, kwr2, Append(insts, obj2))
                  IN  [rest EXCEPT !.warnings = warned \o @]

activate_unprocessed(subs, pd, kwr, insts) ==
    activate_loop(subs, Cardinality(DOMAIN pd) + 1, pd, kwr, insts)

activate(subs, pd, kwr, insts) == activate_loop(subs, 1, pd, kwr, insts)

(***************************************************************************)
(* Discovery: ModuleRegistry.load_module and load_directory.               *)
(* A file is the sequence of its top-level statements: class definitions   *)
(* under @register_module, and statements that raise.  A directory is      *)
(* whether it exists and the files glob('**/*.py') yields, in the order it *)
(* yields them.                                                            *)
(***************************************************************************)
RegisterStmt(cls, kw) == [stmt |-> "register", cls |-> cls, kw |-> kw]
RaiseStmt == [stmt |-> "raise"]

FileNames == {"fir.py", "nonlinearity.py", "broken.py", "__init__.py"}

file_body(f) ==
    CASE f = "fir.py"          -> <<RegisterStmt("A", "fir")>>
      [] f = "nonlinearity.py" -> <<RegisterStmt("B", None)>>
      [] f = "broken.py"       -> <<RegisterStmt("A2", "sig"), RaiseStmt,
                                    RegisterStmt("B", "fir")>>
      [] f = "__init__.py"     -> <<RegisterStmt("B", "fir")>>

\* the orders in which glob can yield the files of a set
Orders(S) ==
    { o \in UNION { [1..n -> S] : n \in {Cardinality(S)} } :
        \A i, j \in DOMAIN o : i # j => o[i] # o[j] }

\* the file sets of the directories loaded
DirectoryContents ==
    { {}, {"fir.py", "__init__.py"}, {"fir.py", "broken.py", "nonlinearity.py"} }

Directories ==
    {[exists |-> FALSE, files |-> <<>>]}
        \cup { [exists |-> TRUE, files |-> o] :
                 o \in UNION { Orders(S) : S \in DirectoryContents } }

\* spec.loader.exec_module(module): runs the statements of the file in order;
\* the first one that raises ends the execution
RECURSIVE exec_module(_, _, _, _)
exec_module(subs, f, body, i) ==
    IF i > Len(body)
    THEN [subclasses |-> subs, outcome |-> Return(None)]
    ELSE IF body[i].stmt = "raise"
         THEN [subclasses |-> subs, outcome |-> Raise("RuntimeError", f)]
         ELSE LET res == register_module(subs, body[i].cls, body[i].kw)
              IN  IF res.outcome.kind = "raise"
                  THEN [subclasses |-> subs, outcome |-> res.outcome]
                  ELSE exec_module(res.subclasses, f, body, i + 1)

\* ModuleRegistry.load_module
load_module(subs, f) == exec_module(subs, f, file_body(f), 1)

\* for module in directory.glob('**/*.py'): ... load_module(module, spec_root)
RECURSIVE load_files_swallow(_, _, _, _)
load_files_swallow(subs, files, i, executed) ==
    IF i > Len(files)
    THEN [subclasses |-> subs, outcome |-> Return(None), executed |-> executed]
    ELSE IF files[i] # "__init__.py"
         THEN LET res == load_module(subs, files[i])
              IN  load_files_swallow(res.subclasses, files, i + 1,
                                     Append(executed, files[i]))
         ELSE load_files_swallow(subs, files, i + 1, executed)

RECURSIVE load_files(_, _, _, _)
load_files(subs, files, i, executed) ==
    IF i > Len(files)
    THEN [subclasses |-> subs, outcome |-> Return(None), executed |-> executed]
    ELSE IF files[i] # "__init__.py"
         THEN LET res == load_module(subs, files[i])
              IN  IF res.outcome.kind = "raise"
                  THEN [subclasses |-> res.subclasses, outcome |-> res.outcome,
                        executed |-> Append(executed, files[i])]
                  ELSE load_files(res.subclasses, files, i + 1,
                                  Append(executed, files[i]))
         ELSE load_files(subs, files, i + 1, executed)

\* ModuleRegistry.load_directory
load_directory_nocheck(subs, directory) ==
    load_files(subs, directory.files, 1, <<>>)

load_directory(subs, directory) ==
    IF ~directory.exists
    THEN [subclasses |-> subs,
          outcome |-> Raise("FileNotFoundError", "The directory could not be found."),
          executed |-> <<>>]
    ELSE load_files(subs, directory.files, 1, <<>>)

(***************************************************************************)
(* Lookups                                                                 *)
(***************************************************************************)
\* ModuleRegistry.__contains__
contains(pd, item) == item \in DOMAIN pd

\* ModuleRegistry.__getitem__
ModuleRegistry_getitem(pd, item) ==
    IF ~contains(pd, item)
    THEN Raise("ModuleMissingError", item)
    ELSE Return(Inst(pd[item]))

\* KeywordRegistry.__getitem__
KeywordRegistry_getitem_keyerror(kwr, item) ==
    IF item \notin DOMAIN kwr
    THEN Raise("KeyError", item)
    ELSE Return(Inst(kwr[item]))

KeywordRegistry_getitem(kwr, item) ==
    IF item \notin DOMAIN kwr
    THEN Raise("KeywordMissingError", item)
    ELSE Return(Inst(kwr[item]))

\* ModuleRegistry.get_by_path
get_by_path(pd, kwr, key, default) ==
    IF default # None
    THEN dict_get(pd, key, default)
    ELSE ModuleRegistry_getitem(pd, key)

\* ModuleRegistry.get_by_kw
get_by_kw(pd, kwr, key, default) ==
    IF default # None
    THEN dict_get(pd, key, default)
    ELSE KeywordRegistry_getitem(kwr, key)

(***************************************************************************)
(* The module contract: ModuleBase.__call__ and check_phis_kwargs.         *)
(* An argument or attribute that may be None is a sequence of length at    *)
(* most one: <<>> is None and <<x>> is the value x.  A bundle is a dict, a *)
(* label declaration is a list.                                            *)
(***************************************************************************)
NoneOpt == <<>>
Some(x) == <<x>>

\* the modules called: FIRBasic (modules/fir.py), WCBasic (modules/weight_channels.py)
\* and NoPhis, a module class whose phi_labels is None
CallModules == {"FIRBasic", "WCBasic", "NoPhis"}

phi_labels(m) ==
    CASE m = "FIRBasic" -> Some(<<"coefficients">>)
      [] m = "WCBasic"  -> Some(<<"coefficients">>)
      [] m = "NoPhis"   -> NoneOpt

kwarg_labels(m) ==
    CASE m = "FIRBasic" -> Some(<<"fs", "non_causal", "offsets">>)
      [] m = "WCBasic"  -> NoneOpt
      [] m = "NoPhis"   -> Some(<<"fs">>)

\* keys of the bundles handed to a call
PhiKeys == {"coefficients", "Coefficients", "base"}
KwargKeys == {"fs", "non_causal", "offsets"}
Bundles(keys) == {NoneOpt} \cup { Some([x \in S |-> 0]) : S \in SUBSET keys }

\* set(phis.keys())
key_set(d) == DOMAIN d
\* set(self.phi_labels)
label_set(l) == { l[i] : i \in DOMAIN l }

\* one of the two checks of check_phis_kwargs: TRUE iff it raises
bundle_rejected_subset(bundle, labels) ==
    IF ~(bundle = NoneOpt /\ labels = NoneOpt)
    THEN \/ (bundle = NoneOpt \/ labels = NoneOpt)
         \/ ~(label_set(labels[1]) \subseteq key_set(bundle[1]))
    ELSE FALSE

bundle_rejected_none_as_empty(bundle, labels) ==
    ~((IF bundle = NoneOpt THEN {} ELSE key_set(bundle[1]))
        = (IF labels = NoneOpt THEN {} ELSE label_set(labels[1])))

bundle_rejected(bundle, labels) ==
    IF ~(bundle = NoneOpt /\ labels = NoneOpt)
    THEN \/ (bundle = NoneOpt \/ labels = NoneOpt)
         \/ ~(key_set(bundle[1]) = label_set(labels[1]))
    ELSE FALSE

\* ModuleBase.check_phis_kwargs
check_phis_kwargs(m, phis, kwargs) ==
    IF bundle_rejected(phis, phi_labels(m))
    THEN Raise("AttributeError", "phis")
    ELSE IF bundle_rejected(kwargs, kwarg_labels(m))
         THEN Raise("AttributeError", "kwargs")
         ELSE Return(None)

\* ModuleBase.__call__
call(m, phis, kwargs) ==
    LET checked == check_phis_kwargs(m, phis, kwargs)
    IN  IF checked.kind = "raise"
        THEN [outcome |-> checked, get_fn |-> FALSE]
        ELSE [outcome |-> Return("fn"), get_fn |-> TRUE]

(***************************************************************************)
(* WCBasic.parse_kw (modules/weight_channels.py).  A string is the         *)
(* sequence of its characters.                                             *)
(***************************************************************************)
\* the pieces the keyword strings handed to parse_kw are made of
Tokens ==
    { <<"5">>, <<"2">>, <<"0">>, <<"x">>, <<".", "g">>, <<".", "c">>,
      <<".", "q">>, <<".">>, <<"\n">> }

\* \d
is_digit(c) == c \in {"0", "2", "5"}
\* [a-zA-Z]
is_letter(c) == c \in {"x", "g", "c", "q"}

\* int(...)
digit_value(c) == CASE c = "0" -> 0 [] c = "2" -> 2 [] c = "5" -> 5
RECURSIVE to_int(_)
to_int(digits) ==
    IF digits = <<>> THEN 0
    ELSE 10 * to_int(SubSeq(digits, 1, Len(digits) - 1))
            + digit_value(digits[Len(digits)])

\* \d+ from position i: the position after the longest run of digits
RECURSIVE digits_end(_, _)
digits_end(s, i) ==
    IF i <= Len(s) /\ is_digit(s[i]) THEN digits_end(s, i + 1) ELSE i

\* (?:\.[a-zA-Z])* from position i: the position after the last repetition
RECURSIVE options_end(_, _)
options_end(s, i) ==
    IF i + 1 <= Len(s) /\ s[i] = "." /\ is_letter(s[i + 1])
    THEN options_end(s, i + 2)
    ELSE i

\* $: the end of the string, or just before a newline that ends it
at_end_strict(s, i) == i = Len(s) + 1
at_end(s, i) == i = Len(s) + 1 \/ (i = Len(s) /\ s[i] = "\n")

\* re.match(regex, kw_string): <<>> when there is no match, else <<groupdict>>
regex_match(s) ==
    LET i1 == digits_end(s, 1)
        i2 == digits_end(s, i1 + 1)
        has_bank == /\ i2 <= Len(s)
                    /\ s[i2] = "x"
                    /\ digits_end(s, i2 + 1) > i2 + 1
        i3 == IF has_bank THEN digits_end(s, i2 + 1) ELSE i2
        i4 == options_end(s, i3)
    IN  IF /\ i1 > 1
           /\ i1 <= Len(s)
           /\ s[i1] = "x"
           /\ i2 > i1 + 1
           /\ at_end(s, i4)
        THEN Some([inputs |-> SubSeq(s, 1, i1 - 1),
                   outputs |-> SubSeq(s, i1 + 1, i2 - 1),
                   bank |-> IF has_bank THEN Some(SubSeq(s, i2 + 1, i3 - 1))
                            ELSE NoneOpt,
                   options |-> SubSeq(s, i3, i4 - 1)])
        ELSE NoneOpt

\* re.findall(r'([a-zA-Z])', groups['options'])
find_letters(options) == SelectSeq(options, is_letter)

available_options == {"c", "g", "n", "z", "o"}

\* if 'g' in options: if 'c' in options: raise
gc_conflict_adjacent(options) ==
    \E i \in 1..(Len(options) - 1) : options[i] = "c" /\ options[i + 1] = "g"
gc_conflict(options) ==
    /\ \E i \in 1..Len(options) : options[i] = "g"
    /\ \E i \in 1..Len(options) : options[i] = "c"

\* np.empty((rows, columns))
np_empty(rows, columns) == [shape |-> <<rows, columns>>]

\* WCBasic.parse_kw
parse_kw(kw_string) ==
    LET found == regex_match(kw_string)
    IN  IF found = NoneOpt
        THEN Raise("KeywordFormatError", kw_string)
        ELSE LET groups == found[1]
                 coeff_mean == np_empty(to_int(groups.inputs), to_int(groups.outputs))
                 coeff_sd == np_empty(to_int(groups.inputs), to_int(groups.outputs))
                 options == find_letters(groups.options)
             IN  IF groups.options # <<>>
                       /\ ~({ options[i] : i \in 1..Len(options) }
                               \subseteq available_options)
                 THEN Raise("KeywordFormatError", groups.options)
                 ELSE IF groups.options # <<>> /\ gc_conflict(options)
                      THEN Raise("KeywordFormatError", kw_string)
                      ELSE Return([mean |-> coeff_mean, sd |-> coeff_sd])

(***************************************************************************)
(* State machine of the registry                                           *)
(***************************************************************************)
Init ==
    /\ subclasses = <<>>
    /\ path_dict = [r \in Registries |-> new_registry.path_dict]
    /\ kw_registry = [r \in Registries |-> new_registry.kw_registry]
    /\ instances = <<>>
    /\ nActivate = [r \in Registries |-> 0]
    /\ lastOp = [op |-> "init"]

TotalActivations == nActivate["r1"] + nActivate["r2"]

\* @register_module(kw) applied to a class
Register(maxPending) ==
    \E reg \in Registrations :
        LET res == register_module(subclasses, reg[1], reg[2])
        IN  /\ Len(subclasses) < maxPending
            /\ subclasses' = res.subclasses
            /\ lastOp' = [op |-> "register", cls |-> reg[1], kw |-> reg[2],
                          outcome |-> res.outcome]
            /\ UNCHANGED <<path_dict, kw_registry, instances, nActivate>>

\* r.activate()
Activate(maxActivations) ==
    \E r \in Registries :
        LET res == activate(subclasses, path_dict[r], kw_registry[r], instances)
        IN  /\ TotalActivations < maxActivations
            /\ path_dict' = store(path_dict, r, res.path_dict)
            /\ kw_registry' = store(kw_registry, r, res.kw_registry)
            /\ instances' = res.instances
            /\ subclasses' = pending_after_activate(subclasses)
            /\ nActivate' = [nActivate EXCEPT ![r] = @ + 1]
            /\ lastOp' = [op |-> "activate", reg |-> r, outcome |-> res.outcome,
                          at |-> res.at, base |-> Len(instances),
                          warnings |-> res.warnings]

\* r.get_by_path(key, default)
GetByPath ==
    \E r \in Registries, key \in Keys, default \in Defaults :
        /\ lastOp' = [op |-> "get_by_path", reg |-> r, key |-> key,
                      default |-> default,
                      outcome |-> get_by_path(path_dict[r], kw_registry[r], key, default)]
        /\ UNCHANGED <<subclasses, path_dict, kw_registry, instances, nActivate>>

\* r.get_by_kw(key, default)
GetByKw ==
    \E r \in Registries, key \in Keys, default \in Defaults :
        /\ lastOp' = [op |-> "get_by_kw", reg |-> r, key |-> key,
                      default |-> default,
                      outcome |-> get_by_kw(path_dict[r], kw_registry[r], key, default)]
        /\ UNCHANGED <<subclasses, path_dict, kw_registry, instances, nActivate>>

\* m(phis=phis, kwargs=kwargs) on an instance of module class m
Call ==
    \E m \in CallModules, phis \in Bundles(PhiKeys), kwargs \in Bundles(KwargKeys) :
        LET res == call(m, phis, kwargs)
        IN  /\ lastOp' = [op |-> "call", module |-> m, phis |-> phis,
                          kwargs |-> kwargs, outcome |-> res.outcome,
                          get_fn |-> res.get_fn]
            /\ UNCHANGED <<subclasses, path_dict, kw_registry, instances, nActivate>>

\* ModuleRegistry.load_module(f)
LoadModule ==
    \E f \in FileNames :
        LET res == load_module(subclasses, f)
        IN  /\ Len(res.subclasses) <= MaxPendingLoad
            /\ subclasses' = res.subclasses
            /\ lastOp' = [op |-> "load_module", file |-> f, outcome |-> res.outcome]
            /\ UNCHANGED <<path_dict, kw_registry, instances, nActivate>>

\* ModuleRegistry.load_directory(directory)
LoadDirectory ==
    \E directory \in Directories :
        LET res == load_directory(subclasses, directory)
        IN  /\ Len(res.subclasses) <= MaxPendingLoad
            /\ subclasses' = res.subclasses
            /\ lastOp' = [op |-> "load_directory", directory |-> directory,
                          outcome |-> res.outcome, executed |-> res.executed]
            /\ UNCHANGED <<path_dict, kw_registry, instances, nActivate>>

\* registration and activation
Next == Register(MaxPending) \/ Activate(MaxActivations)

Spec == Init /\ [][Next]_vars

\* registration, activation and lookups
NextLookup ==
    \/ Register(MaxPendingLookup)
    \/ Activate(MaxActivationsLookup)
    \/ GetByPath
    \/ GetByKw

SpecLookup == Init /\ [][NextLookup]_vars

\* discovery and activation
NextLoad ==
    \/ LoadModule
    \/ LoadDirectory
    \/ Activate(MaxActivationsLoad)

SpecLoad == Init /\ [][NextLoad]_vars

\* the caller puts a keyword string together, token by token
InitParse ==
    /\ subclasses = <<>>
    /\ path_dict = [r \in Registries |-> new_registry.path_dict]
    /\ kw_registry = [r \in Registries |-> new_registry.kw_registry]
    /\ instances = <<>>
    /\ nActivate = [r \in Registries |-> 0]
    /\ lastOp = [op |-> "kw_string", kw_string |-> <<>>, tokens |-> 0]

ExtendKwString ==
    \E t \in Tokens :
        /\ lastOp.op = "kw_string"
        /\ lastOp.tokens < MaxTokens
        /\ lastOp' = [op |-> "kw_string", kw_string |-> lastOp.kw_string \o t,
                      tokens |-> lastOp.tokens + 1]
        /\ UNCHANGED <<subclasses, path_dict, kw_registry, instances, nActivate>>

\* parse_kw(kw_string)
ParseKw ==
    /\ lastOp.op = "kw_string"
    /\ lastOp' = [op |-> "parse_kw", kw_string |-> lastOp.kw_string,
                  outcome |-> parse_kw(lastOp.kw_string)]
    /\ UNCHANGED <<subclasses, path_dict, kw_registry, instances, nActivate>>

NextParse == ExtendKwString \/ ParseKw

SpecParse == InitParse /\ [][NextParse]_vars

\* calls of modules
NextCall == Call

SpecCall == Init /\ [][NextCall]_vars

(***************************************************************************)
(* Properties                                                              *)
(***************************************************************************)
Max(S) == CHOOSE x \in S : \A y \in S : y <= x

\* positions of the pending entries, among the first n, whose class yields pathSpec p
SpecPositions(p, n) == { j \in 1..n : class_spec(subclasses[j].cls) = p }
\* positions of the pending entries, among the first n, that declare keyword k
KwPositions(k, n) == { j \in 1..n : subclasses[j].kw = k }

\* no two pending entries yield the same pathSpec
PendingSpecsDistinct ==
    \A i, j \in 1..Len(subclasses) :
        i # j => class_spec(subclasses[i].cls) # class_spec(subclasses[j].cls)

\* C1 as stated: every instance stored in a keyword index is the very instance
\* the path index of the same registry stores under the instance's pathSpec.
C1_Original ==
    \A r \in Registries : \A k \in DOMAIN kw_registry[r] :
        LET m == kw_registry[r][k]
            p == instances[m].spec
        IN  /\ p \in DOMAIN path_dict[r]
            /\ path_dict[r][p] = m

\* C1 amended: the pathSpec of every instance stored in a keyword index is a
\* key of the path index of the same registry, which maps it to that instance
\* or to an instance of the same pathSpec created later; it is that very
\* instance whenever no two pending entries yield the same pathSpec.
C1_IndexConsistency ==
    \A r \in Registries : \A k \in DOMAIN kw_registry[r] :
        LET m == kw_registry[r][k]
            p == instances[m].spec
        IN  /\ p \in DOMAIN path_dict[r]
            /\ instances[path_dict[r][p]].spec = p
            /\ path_dict[r][p] >= m
            /\ PendingSpecsDistinct => path_dict[r][p] = m

\* a registry activated twice over two pending entries of distinct pathSpecs
C1_Witness ==
    \E r \in Registries :
        /\ nActivate[r] >= 2
        /\ PendingSpecsDistinct
        /\ Cardinality(DOMAIN path_dict[r]) >= 2
        /\ "fir" \in DOMAIN kw_registry[r]

\* C2: after an activate() that returns, get_by_kw(k) is the instance made in
\* this activation from the last pending entry declaring k, and get_by_path(p)
\* is the instance made from the last pending entry whose class yields p.
C2_LastWins ==
    (lastOp.op = "activate" /\ lastOp.outcome.kind = "return") =>
        LET r == lastOp.reg
            n == Len(subclasses)
        IN  /\ \A k \in Keywords :
                   KwPositions(k, n) # {} =>
                       LET i == Max(KwPositions(k, n))
                       IN  /\ get_by_kw(path_dict[r], kw_registry[r], k, None)
                                = Return(Inst(lastOp.base + i))
                           /\ instances[lastOp.base + i].cls = subclasses[i].cls
            /\ \A p \in PathSpecs :
                   SpecPositions(p, n) # {} =>
                       LET i == Max(SpecPositions(p, n))
                       IN  /\ get_by_path(path_dict[r], kw_registry[r], p, None)
                                = Return(Inst(lastOp.base + i))
                           /\ instances[lastOp.base + i].cls = subclasses[i].cls

\* a fresh registry activated over A (keyword fir) followed by B (keyword fir)
C2_Witness ==
    /\ lastOp.op = "activate"
    /\ lastOp.outcome.kind = "return"
    /\ nActivate[lastOp.reg] = 1
    /\ \E i, j \in 1..Len(subclasses) :
           /\ i < j
           /\ subclasses[i] = [cls |-> "A", kw |-> "fir"]
           /\ subclasses[j] = [cls |-> "B", kw |-> "fir"]

\* C3 as stated: once a path index maps p to an instance, it maps p to that
\* same instance in every later state.
C3_Original ==
    [][\A r \in Registries : \A p \in DOMAIN path_dict[r] :
           /\ p \in DOMAIN path_dict'[r]
           /\ path_dict'[r][p] = path_dict[r][p]]_vars

\* C3 amended: once a path index has the key p it keeps it, and the instance
\* under p changes only in an activate() of that registry, which replaces it
\* by an instance of pathSpec p created in that call.
C3_PathKeysStable ==
    [][\A r \in Registries : \A p \in DOMAIN path_dict[r] :
           /\ p \in DOMAIN path_dict'[r]
           /\ \/ path_dict'[r][p] = path_dict[r][p]
              \/ /\ lastOp'.op = "activate"
                 /\ lastOp'.reg = r
                 /\ path_dict'[r][p] > Len(instances)
                 /\ instances'[path_dict'[r][p]].spec = p]_vars

\* a second activate() of a registry has replaced the instances of two pathSpecs
C3_Witness ==
    /\ lastOp.op = "activate"
    /\ nActivate[lastOp.reg] >= 2
    /\ \A r \in Registries \ {lastOp.reg} : nActivate[r] = 0
    /\ \E p, q \in DOMAIN path_dict[lastOp.reg] :
           /\ p # q
           /\ path_dict[lastOp.reg][p] > lastOp.base
           /\ path_dict[lastOp.reg][q] > lastOp.base
           /\ \E m \in 1..lastOp.base : instances[m].spec = p
           /\ \E m \in 1..lastOp.base : instances[m].spec = q

IsLookup(op) == op \in {"get_by_path", "get_by_kw"}

\* the index a lookup is documented to consult
OwnIndex(op, r) == IF op = "get_by_path" THEN path_dict[r] ELSE kw_registry[r]

\* C4: a lookup called with a default returns the entry of its own index
\* for the key when the index has the key, and the default otherwise.
C4_DefaultLookups ==
    (IsLookup(lastOp.op) /\ lastOp.default # None) =>
        LET index == OwnIndex(lastOp.op, lastOp.reg)
        IN  lastOp.outcome =
                IF lastOp.key \in DOMAIN index
                THEN Return(Inst(index[lastOp.key]))
                ELSE Return(Obj(lastOp.default))

\* C5: a lookup called without a default returns the entry of its own index
\* when the index has the key (for get_by_path: exactly when contains(key))
\* and otherwise raises ModuleMissingError, resp. KeywordMissingError, naming
\* the key; the lookup changes neither index nor the pending list.
C5_MissingErrors ==
    [][(IsLookup(lastOp'.op) /\ lastOp'.default = None) =>
          LET r == lastOp'.reg
              key == lastOp'.key
          IN  /\ UNCHANGED <<subclasses, path_dict, kw_registry, instances>>
              /\ lastOp'.op = "get_by_path" =>
                    /\ contains(path_dict[r], key) <=> key \in DOMAIN path_dict[r]
                    /\ lastOp'.outcome =
                           IF key \in DOMAIN path_dict[r]
                           THEN Return(Inst(path_dict[r][key]))
                           ELSE Raise("ModuleMissingError", key)
              /\ lastOp'.op = "get_by_kw" =>
                    lastOp'.outcome =
                        IF key \in DOMAIN kw_registry[r]
                        THEN Return(Inst(kw_registry[r][key]))
                        ELSE Raise("KeywordMissingError", key)]_vars

\* get_by_kw without default misses on a key that the path index holds
C5_Witness ==
    /\ lastOp.op = "get_by_kw"
    /\ lastOp.default = None
    /\ lastOp.outcome.kind = "raise"
    /\ lastOp.key \in DOMAIN path_dict[lastOp.reg]
    /\ DOMAIN kw_registry[lastOp.reg] # {}

\* C6: a registry on which activate() was never called has an empty path
\* index and an empty keyword index, so both lookups without default raise
\* their Missing error for every key.
C6_NeverActivatedEmpty ==
    \A r \in Registries :
        nActivate[r] = 0 =>
            /\ DOMAIN path_dict[r] = {}
            /\ DOMAIN kw_registry[r] = {}
            /\ \A key \in Keys :
                   /\ get_by_path(path_dict[r], kw_registry[r], key, None)
                        = Raise("ModuleMissingError", key)
                   /\ get_by_kw(path_dict[r], kw_registry[r], key, None)
                        = Raise("KeywordMissingError", key)

\* one registry never activated while another holds two keywords
C6_Witness ==
    \E r, q \in Registries :
        /\ nActivate[r] = 0
        /\ nActivate[q] >= 1
        /\ Cardinality(DOMAIN kw_registry[q]) >= 2
        /\ Len(subclasses) >= 2

\* C7 as stated: the hook never fails: it returns the class and the pending
\* list ends with the (class, keyword) pair it was applied to.
C7_Original ==
    lastOp.op = "register" =>
        /\ lastOp.outcome = Return(lastOp.cls)
        /\ Len(subclasses) >= 1
        /\ subclasses[Len(subclasses)] = [cls |-> lastOp.cls, kw |-> lastOp.kw]

\* C7 amended: applied to a class that inherits from ModuleBase the hook
\* appends exactly one (class, keyword) pair to the end of the pending list
\* and returns the class; applied to any other class it raises TypeError and
\* leaves the pending list as it was.  Either way it creates no instance and
\* leaves both indexes of every registry unchanged.
C7_RegisterAppends ==
    [][lastOp'.op = "register" =>
          /\ UNCHANGED <<path_dict, kw_registry, instances>>
          /\ IF is_module_base(lastOp'.cls)
             THEN /\ subclasses' =
                        Append(subclasses, [cls |-> lastOp'.cls, kw |-> lastOp'.kw])
                  /\ lastOp'.outcome = Return(lastOp'.cls)
             ELSE /\ subclasses' = subclasses
                  /\ lastOp'.outcome = Raise("TypeError", lastOp'.cls)]_vars

\* the hook has refused a class while entries are pending and a registry is populated
C7_Witness ==
    /\ lastOp.op = "register"
    /\ lastOp.outcome.kind = "raise"
    /\ Len(subclasses) >= 1
    /\ \E r \in Registries : DOMAIN path_dict[r] # {}

\* C8: every activate() call, returning or raising, leaves the pending list
\* as it was.
C8_PendingUntouched ==
    [][lastOp'.op = "activate" => subclasses' = subclasses]_vars

\* an activate() that raised over a pending list of at least two entries
C8_Witness ==
    /\ lastOp.op = "activate"
    /\ lastOp.outcome.kind = "raise"
    /\ lastOp.at >= 2
    /\ Len(subclasses) >= 2

\* C9: when instantiating the i-th pending class raises, activate() raises
\* that error, creates instances for the entries before i only, and leaves
\* each index with its prior contents overwritten by the entries before i.
C9_AbortAtFailure ==
    [][(lastOp'.op = "activate" /\ lastOp'.outcome.kind = "raise") =>
          LET r == lastOp'.reg
              i == lastOp'.at
              base == Len(instances)
          IN  /\ i \in 1..Len(subclasses)
              /\ lastOp'.outcome = instantiate(subclasses[i].cls)
              /\ \A j \in 1..(i - 1) : instantiate(subclasses[j].cls).kind = "return"
              /\ Len(instances') = base + i - 1
              /\ \A j \in 1..(i - 1) : instances'[base + j].cls = subclasses[j].cls
              /\ \A q \in Registries \ {r} :
                     /\ path_dict'[q] = path_dict[q]
                     /\ kw_registry'[q] = kw_registry[q]
              /\ DOMAIN path_dict'[r] =
                     DOMAIN path_dict[r]
                         \cup { p \in PathSpecs : SpecPositions(p, i - 1) # {} }
              /\ \A p \in DOMAIN path_dict'[r] :
                     path_dict'[r][p] =
                         IF SpecPositions(p, i - 1) # {}
                         THEN base + Max(SpecPositions(p, i - 1))
                         ELSE path_dict[r][p]
              /\ DOMAIN kw_registry'[r] =
                     DOMAIN kw_registry[r]
                         \cup { k \in Keywords : KwPositions(k, i - 1) # {} }
              /\ \A k \in DOMAIN kw_registry'[r] :
                     kw_registry'[r][k] =
                         IF KwPositions(k, i - 1) # {}
                         THEN base + Max(KwPositions(k, i - 1))
                         ELSE kw_registry[r][k]]_vars

\* an activate() that raised at an entry with entries before and after it
C9_Witness ==
    /\ lastOp.op = "activate"
    /\ lastOp.outcome.kind = "raise"
    /\ lastOp.at >= 2
    /\ lastOp.at < Len(subclasses)
    /\ ~is_abstract(subclasses[Len(subclasses)].cls)

\* the key set of a bundle and the declared label set, None being no keys
KeysOf(bundle) == IF bundle = NoneOpt THEN {} ELSE DOMAIN bundle[1]
Declared(labels) ==
    IF labels = NoneOpt THEN {} ELSE { labels[1][i] : i \in 1..Len(labels[1]) }

\* C10: a call raises the validation error whenever the key set of phis
\* differs from the declared phi labels or the key set of kwargs differs from
\* the declared kwarg labels; get_fn runs only when both match.
C10_ExactKeySets ==
    lastOp.op = "call" =>
        LET phisMatch == KeysOf(lastOp.phis) = Declared(phi_labels(lastOp.module))
            kwargsMatch == KeysOf(lastOp.kwargs) = Declared(kwarg_labels(lastOp.module))
        IN  /\ ~(phisMatch /\ kwargsMatch) =>
                  /\ lastOp.outcome.kind = "raise"
                  /\ lastOp.outcome.error = "AttributeError"
                  /\ ~lastOp.get_fn
            /\ lastOp.get_fn => (phisMatch /\ kwargsMatch)

\* a call whose phis hold every declared key and one more was refused
C10_Witness ==
    /\ lastOp.op = "call"
    /\ lastOp.module = "FIRBasic"
    /\ KeysOf(lastOp.phis) = {"coefficients", "base"}
    /\ KeysOf(lastOp.kwargs) = {"fs", "non_causal", "offsets"}
    /\ lastOp.outcome.kind = "raise"

\* the outcome of a call that rejects the named bundle
Rejected(which) == Raise("AttributeError", which)

\* C11 as stated: against a None label declaration every non-empty bundle is
\* rejected, and the empty bundle and the absent bundle are both accepted.
C11_Original ==
    lastOp.op = "call" =>
        /\ phi_labels(lastOp.module) = NoneOpt =>
              IF KeysOf(lastOp.phis) # {}
              THEN lastOp.outcome = Rejected("phis")
              ELSE lastOp.outcome # Rejected("phis")
        /\ (kwarg_labels(lastOp.module) = NoneOpt
                /\ lastOp.outcome # Rejected("phis")) =>
              IF KeysOf(lastOp.kwargs) # {}
              THEN lastOp.outcome = Rejected("kwargs")
              ELSE lastOp.outcome.kind = "return"

\* C11 amended: against a None label declaration every bundle that is given,
\* the explicit empty bundle included, is rejected, and only the absent
\* (None) bundle is accepted; for phis and for kwargs alike.
C11_NoneLabels ==
    lastOp.op = "call" =>
        /\ phi_labels(lastOp.module) = NoneOpt =>
              IF lastOp.phis # NoneOpt
              THEN lastOp.outcome = Rejected("phis")
              ELSE lastOp.outcome # Rejected("phis")
        /\ (kwarg_labels(lastOp.module) = NoneOpt
                /\ lastOp.outcome # Rejected("phis")) =>
              IF lastOp.kwargs # NoneOpt
              THEN /\ lastOp.outcome = Rejected("kwargs")
                   /\ ~lastOp.get_fn
              ELSE /\ lastOp.outcome.kind = "return"
                   /\ lastOp.get_fn

\* an explicit empty kwargs bundle was refused by a module declaring no kwargs
C11_Witness ==
    /\ lastOp.op = "call"
    /\ lastOp.module = "WCBasic"
    /\ lastOp.phis = Some([x \in {"coefficients"} |-> 0])
    /\ lastOp.kwargs = Some(EmptyDict)
    /\ lastOp.outcome = Rejected("kwargs")

\* the entries, among the first n pending ones, that declare a keyword which
\* the keyword index kwr holds or an earlier pending entry declares
Colliding(kwr, n) ==
    { j \in 1..n :
        /\ subclasses[j].kw # None
        /\ \/ subclasses[j].kw \in DOMAIN kwr
           \/ KwPositions(subclasses[j].kw, j - 1) # {} }

\* C12: activate() emits one warning for each entry it inserts under a
\* keyword the keyword index already holds, and no other; the warning names
\* the pathSpec of the instance dropped and of the new one; a fresh registry
\* activated over exactly two entries sharing a keyword emits exactly one
\* warning, and inserting over an existing keyword does not stop the call.
C12_CollisionWarnings ==
    [][lastOp'.op = "activate" =>
          LET r == lastOp'.reg
              kwr == kw_registry[r]
              n == Len(instances') - Len(instances)
              C == Colliding(kwr, n)
              w == lastOp'.warnings
          IN  /\ Len(w) = Cardinality(C)
              /\ \A j \in C :
                     LET k == subclasses[j].kw
                         before == KwPositions(k, j - 1)
                         dropped == IF before # {}
                                    THEN class_spec(subclasses[Max(before)].cls)
                                    ELSE instances[kwr[k]].spec
                     IN  w[Cardinality({ c \in C : c <= j })]
                             = [kw |-> k, dropped |-> dropped,
                                new |-> class_spec(subclasses[j].cls)]
              /\ (lastOp'.outcome.kind = "return") => n = Len(subclasses)
              /\ (/\ DOMAIN kwr = {}
                  /\ Len(subclasses) = 2
                  /\ subclasses[1].kw # None
                  /\ subclasses[1].kw = subclasses[2].kw
                  /\ lastOp'.outcome.kind = "return") => Len(w) = 1]_vars

\* a fresh registry activated over A and B, both declaring fir, warned once
C12_Witness ==
    /\ lastOp.op = "activate"
    /\ nActivate[lastOp.reg] = 1
    /\ subclasses = <<[cls |-> "A", kw |-> "fir"], [cls |-> "B", kw |-> "fir"]>>
    /\ lastOp.warnings = <<[kw |-> "fir", dropped |-> "pkg.A", new |-> "pkg.B"]>>

\* C17: the instance made from a pending entry carries the keyword the entry
\* declares and none when it declares none, an instance made from an entry
\* without keyword is in no keyword index, and every keyword k of a keyword
\* index maps to an instance whose keyword is k.
C17_KeywordAssignment ==
    /\ \A r \in Registries : \A k \in DOMAIN kw_registry[r] :
           /\ k # None
           /\ instances[kw_registry[r][k]].kw = k
    /\ lastOp.op = "activate" =>
           \A j \in 1..(Len(instances) - lastOp.base) :
               LET m == lastOp.base + j
               IN  /\ instances[m].kw = subclasses[j].kw
                   /\ subclasses[j].kw = None =>
                          \A r \in Registries : \A k \in DOMAIN kw_registry[r] :
                              kw_registry[r][k] # m

\* an activate() has made instances from an entry with and one without keyword
C17_Witness ==
    /\ lastOp.op = "activate"
    /\ DOMAIN kw_registry[lastOp.reg] # {}
    /\ \E i, j \in 1..(Len(instances) - lastOp.base) :
           /\ subclasses[i].kw = None
           /\ subclasses[j].kw # None
           /\ kw_registry[lastOp.reg][subclasses[j].kw] = lastOp.base + j

Min(S) == CHOOSE x \in S : \A y \in S : x <= y

\* the files of a listing that load_directory executes
NotInit(f) == f # "__init__.py"
Loadable(files) == SelectSeq(files, NotInit)

\* the positions of the statements of file f that raise
RaisingStmts(f) == { i \in 1..Len(file_body(f)) : file_body(f)[i].stmt = "raise" }

\* the (class, keyword) pairs file f registers before its first raising statement
RegistrationsOf(f) ==
    LET body == file_body(f)
        n == IF RaisingStmts(f) = {} THEN Len(body) ELSE Min(RaisingStmts(f)) - 1
    IN  [i \in 1..n |-> [cls |-> body[i].cls, kw |-> body[i].kw]]

\* those of the first n files of a listing, in order
RECURSIVE RegistrationsUpTo(_, _)
RegistrationsUpTo(files, n) ==
    IF n = 0 THEN <<>>
    ELSE RegistrationsUpTo(files, n - 1) \o RegistrationsOf(files[n])

\* C13: when a file executed by load_directory raises, load_directory raises
\* that failure, no file later in traversal order is executed, and the
\* pending list is its prior contents followed by the registrations made
\* before the failure.
C13_LoadFailurePropagates ==
    [][(lastOp'.op = "load_directory" /\ lastOp'.directory.exists) =>
          LET files == Loadable(lastOp'.directory.files)
              bad == { i \in 1..Len(files) : RaisingStmts(files[i]) # {} }
          IN  IF bad = {}
              THEN /\ lastOp'.outcome.kind = "return"
                   /\ lastOp'.executed = files
                   /\ subclasses' = subclasses \o RegistrationsUpTo(files, Len(files))
              ELSE /\ lastOp'.outcome = Raise("RuntimeError", files[Min(bad)])
                   /\ lastOp'.executed = SubSeq(files, 1, Min(bad))
                   /\ subclasses' = subclasses \o RegistrationsUpTo(files, Min(bad))]_vars

\* a load raised in the second of three files after two registrations
C13_Witness ==
    /\ lastOp.op = "load_directory"
    /\ lastOp.outcome.kind = "raise"
    /\ Len(lastOp.directory.files) = 3
    /\ Len(lastOp.executed) = 2
    /\ Len(subclasses) >= 2
    /\ subclasses[Len(subclasses)] = [cls |-> "A2", kw |-> "sig"]

\* C14: load_directory on a path that does not exist raises the not-found
\* error, executes no file, and leaves the pending list and every index as
\* they were.
C14_MissingDirectory ==
    [][(lastOp'.op = "load_directory" /\ ~lastOp'.directory.exists) =>
          /\ lastOp'.outcome.kind = "raise"
          /\ lastOp'.outcome.error = "FileNotFoundError"
          /\ lastOp'.executed = <<>>
          /\ UNCHANGED <<subclasses, path_dict, kw_registry, instances>>]_vars

\* a missing directory was refused while entries are pending and a registry is populated
C14_Witness ==
    /\ lastOp.op = "load_directory"
    /\ ~lastOp.directory.exists
    /\ lastOp.outcome.kind = "raise"
    /\ Len(subclasses) >= 1
    /\ \E r \in Registries : DOMAIN path_dict[r] # {}

\* C15 as stated: every activate() call creates one instance for each
\* pending entry, in pending-list order.
C15_Original ==
    lastOp.op = "activate" =>
        /\ Len(instances) = lastOp.base + Len(subclasses)
        /\ \A j \in 1..Len(subclasses) :
               instances[lastOp.base + j].cls = subclasses[j].cls

\* C15 amended: every activate() call that returns creates one instance for
\* each pending entry, in pending-list order, whatever earlier activate()
\* calls have processed, and keeps the instances made before; a call whose
\* i-th instantiation raises creates them for the i-1 entries before it only.
C15_ReprocessesAll ==
    [][lastOp'.op = "activate" =>
          LET n == IF lastOp'.outcome.kind = "return"
                   THEN Len(subclasses)
                   ELSE lastOp'.at - 1
          IN  /\ Len(instances') = Len(instances) + n
              /\ SubSeq(instances', 1, Len(instances)) = instances
              /\ \A j \in 1..n :
                     instances'[Len(instances) + j].cls = subclasses[j].cls]_vars

\* two returning activations of one registry over the same two entries: 2 * 2 instances
C15_Witness ==
    /\ lastOp.op = "activate"
    /\ lastOp.outcome.kind = "return"
    /\ nActivate[lastOp.reg] = 2
    /\ \A r \in Registries \ {lastOp.reg} : nActivate[r] = 0
    /\ Len(subclasses) = 2
    /\ lastOp.base = 2
    /\ Len(instances) = 4

\* C16 as stated: activate() run again on the same registry against the
\* unchanged, non-empty pending list, and returning, leaves the path index
\* with more entries.
C16_Original ==
    [][(/\ lastOp.op = "activate"
        /\ lastOp'.op = "activate"
        /\ lastOp'.reg = lastOp.reg
        /\ lastOp'.outcome.kind = "return"
        /\ Len(subclasses) >= 1) =>
          Cardinality(DOMAIN path_dict'[lastOp.reg])
              > Cardinality(DOMAIN path_dict[lastOp.reg])]_vars

\* C16 amended: activate() run again on the same registry against the
\* unchanged pending list leaves both indexes with the same keys, hence the
\* same number of entries, and maps each pathSpec of an entry it processed to
\* an instance created in this call.
C16_SameKeysNewInstances ==
    [][(/\ lastOp.op = "activate"
        /\ lastOp'.op = "activate"
        /\ lastOp'.reg = lastOp.reg) =>
          LET r == lastOp.reg
              n == Len(instances') - Len(instances)
          IN  /\ DOMAIN path_dict'[r] = DOMAIN path_dict[r]
              /\ DOMAIN kw_registry'[r] = DOMAIN kw_registry[r]
              /\ \A p \in DOMAIN path_dict'[r] :
                     IF SpecPositions(p, n) # {}
                     THEN path_dict'[r][p] > Len(instances)
                     ELSE path_dict'[r][p] = path_dict[r][p]]_vars

\* a registry activated twice over the same two entries of distinct pathSpecs
C16_Witness ==
    /\ lastOp.op = "activate"
    /\ lastOp.outcome.kind = "return"
    /\ nActivate[lastOp.reg] = 2
    /\ \A r \in Registries \ {lastOp.reg} : nActivate[r] = 0
    /\ Len(subclasses) = 2
    /\ Len(instances) = 4
    /\ Cardinality(DOMAIN path_dict[lastOp.reg]) = 2
    /\ \A p \in DOMAIN path_dict[lastOp.reg] : path_dict[lastOp.reg][p] > lastOp.base

\* a non-empty string of digits, and one that denotes a positive integer
IsNumber(d) == d # <<>> /\ \A i \in 1..Len(d) : is_digit(d[i])
IsPositive(d) == IsNumber(d) /\ \E i \in 1..Len(d) : d[i] # "0"

\* zero or more .<letter> options with allowed letters, not both c and g
IsOptions(o) ==
    /\ Len(o) % 2 = 0
    /\ \A i \in 1..Len(o) :
           IF i % 2 = 1 THEN o[i] = "." ELSE o[i] \in {"c", "g", "n", "z", "o"}
    /\ ~(\E i \in 1..Len(o) : o[i] = "c") \/ ~(\E i \in 1..Len(o) : o[i] = "g")

\* s is <inputs>x<outputs>[x<bankCount>] and options, <inputs> ending before
\* position a and <outputs> at position b, the numbers satisfying Num
FormAt(s, a, b, Num(_)) ==
    /\ s[a] = "x"
    /\ Num(SubSeq(s, 1, a - 1))
    /\ Num(SubSeq(s, a + 1, b))
    /\ LET t == SubSeq(s, b + 1, Len(s))
       IN  \/ IsOptions(t)
           \/ \E c \in 2..Len(t) :
                  /\ t[1] = "x"
                  /\ Num(SubSeq(t, 2, c))
                  /\ IsOptions(SubSeq(t, c + 1, Len(t)))

\* the outcome the claim gives parse_kw on the string s
Expected(s, Num(_)) ==
    IF \E a, b \in 1..Len(s) : FormAt(s, a, b, Num)
    THEN \E a, b \in 1..Len(s) :
             /\ FormAt(s, a, b, Num)
             /\ LET shape == <<to_int(SubSeq(s, 1, a - 1)), to_int(SubSeq(s, a + 1, b))>>
                IN  lastOp.outcome =
                        Return([mean |-> [shape |-> shape], sd |-> [shape |-> shape]])
    ELSE /\ lastOp.outcome.kind = "raise"
         /\ lastOp.outcome.error = "KeywordFormatError"

\* the string without the newline that ends it, if one does
WithoutFinalNewline(s) ==
    IF Len(s) >= 1 /\ s[Len(s)] = "\n" THEN SubSeq(s, 1, Len(s) - 1) ELSE s

\* C18 as stated: parse_kw returns mean and sd containers of shape
\* (inputs, outputs) exactly for the strings <inputs>x<outputs>[x<bankCount>]
\* followed by allowed options, not both c and g, the numbers being positive
\* integers; every other string raises KeywordFormatError.
C18_Original ==
    lastOp.op = "parse_kw" => Expected(lastOp.kw_string, IsPositive)

\* What parse_kw does: the same with the numbers being non-empty digit
\* strings, zero included, and with one newline allowed at the end of the
\* string; "5x2" and "5x2.g" give shape (5, 2), "5x2.c.g" and "5x2.q" raise.
ParseKwAccepts ==
    lastOp.op = "parse_kw" =>
        /\ Expected(WithoutFinalNewline(lastOp.kw_string), IsNumber)
        /\ lastOp.kw_string \in {<<"5", "x", "2">>, <<"5", "x", "2", ".", "g">>} =>
               lastOp.outcome =
                   Return([mean |-> [shape |-> <<5, 2>>], sd |-> [shape |-> <<5, 2>>]])
        /\ lastOp.kw_string \in {<<"5", "x", "2", ".", "c", ".", "g">>,
                                 <<"5", "x", "2", ".", "q">>} =>
               lastOp.outcome.kind = "raise"

====
